---- MODULE Spec2Model ----
(***************************************************************************)
(* Inventory Optimization: ROP & EOQ Calculator (src/main.py).             *)
(*                                                                         *)
(* The session store st.session_state.data is a pandas DataFrame: an       *)
(* ordered list of columns, an index of row labels and one row of cells    *)
(* per label.  Every Streamlit interaction reruns the script and executes  *)
(* the branch of the selected option; one action of this module is one     *)
(* such run.                                                               *)
(*                                                                         *)
(* Numbers.  The program computes in 64-bit floating point.  The model     *)
(* computes in exact arithmetic over the values the program's formulas     *)
(* can produce from rational base fields: rationals, square roots of       *)
(* rationals, +inf, -inf and NaN, with the IEEE rules numpy and pandas     *)
(* follow for division by zero, inf - inf, 0 * inf and the square root of  *)
(* a negative number.  Rounding error and signed zeros are not modelled.   *)
(*                                                                         *)
(* Strings that the program splits on blanks (SKU labels and numbers) are  *)
(* modelled as the sequence of their blank-separated tokens.               *)
(***************************************************************************)
EXTENDS Integers, Sequences, FiniteSets, TLC

VARIABLES
    data,           \* st.session_state.data: the session store
    option,         \* the operation the last run executed
    scenario,       \* the scenario tag of the last View / apply_scenario
    out,            \* the table the last run produced (df_scenario, df)
    chart,          \* the labels the chart loop of View SKUs has drawn
    class_summary,  \* the class-wise summary of View SKUs
    excel_data,     \* the sheet written by Download Data
    err,            \* the exception that ended the last run, or "none"
    msg,            \* st.success / st.error of the last run, or "none"
    pre,            \* the session store when the last run began
    cm_before,      \* the argument of the last calculate_metrics call, at entry
    cm_after,       \* the same object when that call returned
    views           \* the View SKUs runs since the last other run, counted to 2

vars == <<data, option, scenario, out, chart, class_summary, excel_data,
          err, msg, pre, cm_before, cm_after, views>>

---------------------------------------------------------------------------
(* Exact arithmetic standing for numpy float64 *)

Abs(n) == IF n < 0 THEN -n ELSE n

Sign(n) == IF n < 0 THEN -1 ELSE IF n = 0 THEN 0 ELSE 1

RECURSIVE Gcd(_, _)
Gcd(a, b) == IF b = 0 THEN a ELSE Gcd(b, a % b)

\* The rational n/d in lowest terms with a positive denominator.
Q(n, d) ==
    LET g == Gcd(Abs(n), Abs(d))
        s == IF d < 0 THEN -1 ELSE 1
    IN  [k |-> "q", n |-> (s * n) \div g, d |-> (s * d) \div g]

Int2Num(n) == Q(n, 1)

Inf == [k |-> "inf", n |-> 1, d |-> 0]
NInf == [k |-> "inf", n |-> -1, d |-> 0]
NaN == [k |-> "nan", n |-> 0, d |-> 0]

IsFinite(x) == x.k \in {"q", "sqrt"}
IsInf(x) == x.k = "inf"
IsNaN(x) == x.k = "nan"
IsZero(x) == x.k = "q" /\ x.n = 0

\* The sign of a value that is not NaN: every kind keeps its sign in n.
SignOf(x) == Sign(x.n)

SignedInf(s) == IF s < 0 THEN NInf ELSE Inf

\* Products and quotients of rationals, cancelling before multiplying.
MulQ(x, y) ==
    LET g1 == Gcd(Abs(x.n), y.d)
        g2 == Gcd(Abs(y.n), x.d)
    IN  Q((x.n \div g1) * (y.n \div g2), (x.d \div g2) * (y.d \div g1))

InvQ(x) == Q(Sign(x.n) * x.d, Abs(x.n))

DivQ(x, y) == MulQ(x, InvQ(y))

AddQ(x, y) ==
    LET g == Gcd(x.d, y.d)
    IN  Q(x.n * (y.d \div g) + y.n * (x.d \div g), (x.d \div g) * y.d)

\* floor(sqrt(n)) for n >= 0, by bisection on lo <= sqrt(n) < hi.
RECURSIVE SqrtSearch(_, _, _)
SqrtSearch(n, lo, hi) ==
    IF hi - lo <= 1 THEN lo
    ELSE LET mid == (lo + hi) \div 2
         IN  IF mid <= n \div mid THEN SqrtSearch(n, mid, hi)
             ELSE SqrtSearch(n, lo, mid)

ISqrt(n) == IF n = 0 THEN 0 ELSE SqrtSearch(n, 1, n + 1)

IsSquare(n) == ISqrt(n) * ISqrt(n) = n

\* The square of a finite value, as a rational.
SquareOf(x) ==
    IF x.k = "q" THEN MulQ(x, x) ELSE Q(Abs(x.n), x.d)

\* The finite value s * sqrt(r) for a sign s and a rational r >= 0, in its
\* one normal form: a rational when r is the square of a rational, and
\* otherwise a "sqrt" value carrying the sign in n.
FromSquare(s, r) ==
    IF s = 0 \/ r.n = 0 THEN Q(0, 1)
    ELSE IF IsSquare(r.n) /\ IsSquare(r.d) THEN Q(s * ISqrt(r.n), ISqrt(r.d))
    ELSE [k |-> "sqrt", n |-> s * r.n, d |-> r.d]

Mul(x, y) ==
    IF IsNaN(x) \/ IsNaN(y) THEN NaN
    ELSE IF IsInf(x) \/ IsInf(y)
         THEN IF IsZero(x) \/ IsZero(y) THEN NaN
              ELSE SignedInf(SignOf(x) * SignOf(y))
    ELSE IF x.k = "q" /\ y.k = "q" THEN MulQ(x, y)
    ELSE FromSquare(SignOf(x) * SignOf(y), MulQ(SquareOf(x), SquareOf(y)))

Div(x, y) ==
    IF IsNaN(x) \/ IsNaN(y) THEN NaN
    ELSE IF IsInf(y) THEN (IF IsInf(x) THEN NaN ELSE Q(0, 1))
    ELSE IF IsZero(y) THEN (IF IsZero(x) THEN NaN ELSE SignedInf(SignOf(x)))
    ELSE IF IsInf(x) THEN SignedInf(SignOf(x) * SignOf(y))
    ELSE IF x.k = "q" /\ y.k = "q" THEN DivQ(x, y)
    ELSE FromSquare(SignOf(x) * SignOf(y), DivQ(SquareOf(x), SquareOf(y)))

\* Sums.  Two finite values that are rational multiples of one another add
\* to x * (1 + y/x); a sum of values that are not is kept as a formal sum:
\* a rational part q and the set ts of its "sqrt" terms, no two of them
\* rational multiples of one another, which is again a normal form.
Commensurable(x, y) == Div(y, x).k = "q"

TermsOf(x) ==
    IF x.k = "sum" THEN x.ts ELSE IF x.k = "sqrt" THEN {x} ELSE {}

RatOf(x) ==
    IF x.k = "sum" THEN x.q ELSE IF x.k = "q" THEN x ELSE Q(0, 1)

MkSum(q, ts) ==
    IF ts = {} THEN q
    ELSE IF IsZero(q) /\ Cardinality(ts) = 1 THEN CHOOSE t \in ts : TRUE
    ELSE [k |-> "sum", q |-> q, ts |-> ts]

\* t added to a set of pairwise incommensurable "sqrt" terms.
AddTerm(ts, t) ==
    IF \E u \in ts : Commensurable(u, t)
    THEN LET u == CHOOSE u \in ts : Commensurable(u, t)
             s == Mul(u, AddQ(Q(1, 1), Div(t, u)))
         IN  (ts \ {u}) \cup (IF IsZero(s) THEN {} ELSE {s})
    ELSE ts \cup {t}

RECURSIVE AddTerms(_, _)
AddTerms(ts, us) ==
    IF us = {} THEN ts
    ELSE LET t == CHOOSE t \in us : TRUE
         IN  AddTerms(AddTerm(ts, t), us \ {t})

Add(x, y) ==
    IF IsNaN(x) \/ IsNaN(y) THEN NaN
    ELSE IF IsInf(x) /\ IsInf(y) THEN (IF x = y THEN x ELSE NaN)
    ELSE IF IsInf(x) THEN x
    ELSE IF IsInf(y) THEN y
    ELSE MkSum(AddQ(RatOf(x), RatOf(y)), AddTerms(TermsOf(x), TermsOf(y)))

\* numpy.sqrt of a rational or a non-finite value.
Sqrt(x) ==
    CASE IsNaN(x) -> NaN
      [] IsInf(x) -> IF SignOf(x) < 0 THEN NaN ELSE Inf
      [] x.k = "q" -> IF x.n < 0 THEN NaN ELSE FromSquare(1, x)

---------------------------------------------------------------------------
(* DataFrames *)

Range(s) == {s[i] : i \in DOMAIN s}

BaseCols == <<"SKU", "Class", "Average_Daily_Demand", "Lead_Time_Days",
              "Safety_Stock", "Order_Cost", "Holding_Cost">>

DerivedCols == <<"ROP", "Annual_Demand", "EOQ", "Total_Cost">>

\* pandas' default index of a table of n rows: the labels 0 .. n-1.
RangeIndex(n) == [i \in 1..n |-> i - 1]

\* A DataFrame: its columns in order, its row labels in order, and for each
\* row position the cells of that row, one per column.
DataFrame(cols, index, rows) == [cols |-> cols, index |-> index, rows |-> rows]

None == [cols |-> <<>>, index |-> <<>>, rows |-> <<>>, none |-> TRUE]

\* A row given as a list of values, under the given column names in order.
RowOf(cols, values) ==
    [c \in Range(cols) |-> values[CHOOSE j \in DOMAIN cols : cols[j] = c]]

\* A sequence given as a function on 1..n, as the tuple of its values.
Tuple(s) == s \o <<>>

\* df[c]: the column c as a series, one value per row position.
GetItem(df, c) == Tuple([i \in DOMAIN df.rows |-> df.rows[i][c]])

\* df[c] = series: overwrites the column c where it stands, or appends it
\* as the last column.
SetItem(df, c, series) ==
    [df EXCEPT !.cols = IF c \in Range(@) THEN @ ELSE Append(@, c),
               !.rows = Tuple([i \in DOMAIN @ |-> (c :> series[i]) @@ @[i]])]

\* Element-wise series arithmetic.
SeriesMul(a, b) == Tuple([i \in DOMAIN a |-> Mul(a[i], b[i])])
SeriesDiv(a, b) == Tuple([i \in DOMAIN a |-> Div(a[i], b[i])])
SeriesAdd(a, b) == Tuple([i \in DOMAIN a |-> Add(a[i], b[i])])
SeriesSqrt(a) == Tuple([i \in DOMAIN a |-> Sqrt(a[i])])
Scalar(a, x) == Tuple([i \in DOMAIN a |-> x])

---------------------------------------------------------------------------
(* Functions.  Python passes a DataFrame by reference, so the functions    *)
(* take the objects alive during the run (heap: object name -> DataFrame)  *)
(* and the name of their argument, and return the objects as they leave    *)
(* them together with the name of the object they return.                  *)

\* ROP with the safety stock of the first record added to every record.
SetROP_coupled(t) ==
    SetItem(t, "ROP",
        SeriesAdd(SeriesMul(GetItem(t, "Average_Daily_Demand"), GetItem(t, "Lead_Time_Days")),
                  Scalar(GetItem(t, "Safety_Stock"),
                         IF t.rows = <<>> THEN Int2Num(0) ELSE t.rows[1]["Safety_Stock"])))

\* The four assignments of calculate_metrics, each on the table the one
\* before it has left.
SetROP(t) ==
    SetItem(t, "ROP",
        SeriesAdd(SeriesMul(GetItem(t, "Average_Daily_Demand"), GetItem(t, "Lead_Time_Days")),
                  GetItem(t, "Safety_Stock")))

\* A year of 360 days.
SetAnnualDemand_360(t) ==
    SetItem(t, "Annual_Demand",
        SeriesMul(GetItem(t, "Average_Daily_Demand"),
                  Scalar(GetItem(t, "Average_Daily_Demand"), Int2Num(360))))

SetAnnualDemand(t) ==
    SetItem(t, "Annual_Demand",
        SeriesMul(GetItem(t, "Average_Daily_Demand"),
                  Scalar(GetItem(t, "Average_Daily_Demand"), Int2Num(365))))

\* EOQ computed only where the table has no EOQ column yet.
SetEOQ_if_absent(t) ==
    IF "EOQ" \in Range(t.cols) THEN t
    ELSE SetItem(t, "EOQ",
            SeriesSqrt(SeriesDiv(
                SeriesMul(SeriesMul(Scalar(GetItem(t, "Annual_Demand"), Int2Num(2)),
                                    GetItem(t, "Annual_Demand")),
                          GetItem(t, "Order_Cost")),
                GetItem(t, "Holding_Cost"))))

SetEOQ(t) ==
    SetItem(t, "EOQ",
        SeriesSqrt(SeriesDiv(
            SeriesMul(SeriesMul(Scalar(GetItem(t, "Annual_Demand"), Int2Num(2)),
                                GetItem(t, "Annual_Demand")),
                      GetItem(t, "Order_Cost")),
            GetItem(t, "Holding_Cost"))))

\* Total_Cost with the non-finite results replaced by 0 (a fillna(0)).
SeriesFill(a) == Tuple([i \in DOMAIN a |-> IF IsFinite(a[i]) THEN a[i] ELSE Int2Num(0)])

SetTotalCost_filled(t) ==
    SetItem(t, "Total_Cost",
        SeriesFill(SeriesAdd(
            SeriesMul(SeriesDiv(GetItem(t, "EOQ"), Scalar(GetItem(t, "EOQ"), Int2Num(2))),
                      GetItem(t, "Holding_Cost")),
            SeriesMul(SeriesDiv(GetItem(t, "Annual_Demand"), GetItem(t, "EOQ")),
                      GetItem(t, "Order_Cost")))))

\* Total_Cost computed only where the table has no Total_Cost column yet.
SetTotalCost_if_absent(t) ==
    IF "Total_Cost" \in Range(t.cols) THEN t
    ELSE SetItem(t, "Total_Cost",
            SeriesAdd(
                SeriesMul(SeriesDiv(GetItem(t, "EOQ"), Scalar(GetItem(t, "EOQ"), Int2Num(2))),
                          GetItem(t, "Holding_Cost")),
                SeriesMul(SeriesDiv(GetItem(t, "Annual_Demand"), GetItem(t, "EOQ")),
                          GetItem(t, "Order_Cost"))))

SetTotalCost(t) ==
    SetItem(t, "Total_Cost",
        SeriesAdd(
            SeriesMul(SeriesDiv(GetItem(t, "EOQ"), Scalar(GetItem(t, "EOQ"), Int2Num(2))),
                      GetItem(t, "Holding_Cost")),
            SeriesMul(SeriesDiv(GetItem(t, "Annual_Demand"), GetItem(t, "EOQ")),
                      GetItem(t, "Order_Cost"))))

\* calculate_metrics(df): the object named df is assigned to in place and is
\* the object returned; entry is that object as it was when the call began.
calculate_metrics(heap, df) ==
    [heap |-> [heap EXCEPT ![df] = SetTotalCost(SetEOQ(SetAnnualDemand(SetROP(@))))],
     ret |-> df,
     entry |-> heap[df]]

\* The cell to_excel writes for a value of a numeric column: NaN is written
\* as an empty cell (na_rep) and an infinity as the text inf (inf_rep).
ExcelCell(v) ==
    IF IsNaN(v) THEN [k |-> "blank", n |-> 0, d |-> 0]
    ELSE IF IsInf(v) THEN [k |-> "text inf", n |-> v.n, d |-> 0]
    ELSE v

\* df.to_excel(buffer, index=False): the columns and the rows, without the
\* row labels.
download_excel(df) ==
    [cols |-> df.cols,
     rows |-> [i \in DOMAIN df.rows |->
                 [c \in DOMAIN df.rows[i] |->
                     IF c \in {"SKU", "Class"} THEN df.rows[i][c]
                     ELSE ExcelCell(df.rows[i][c])]]]

\* df.copy(): a new object holding the same table.
Copy(heap, df, new) == (new :> heap[df]) @@ heap

\* df[c] = df[c] * 1.2 and df[c] = df[c] + 3 on the object named df.
ScaleDemand(heap, df) ==
    [heap EXCEPT ![df] = SetItem(@, "Average_Daily_Demand",
        SeriesMul(GetItem(@, "Average_Daily_Demand"),
                  Scalar(GetItem(@, "Average_Daily_Demand"), Q(12, 10))))]

\* The three days added to the safety stock.
DelayLead_wrong_column(heap, df) ==
    [heap EXCEPT ![df] = SetItem(@, "Safety_Stock",
        SeriesAdd(GetItem(@, "Safety_Stock"),
                  Scalar(GetItem(@, "Safety_Stock"), Int2Num(3))))]

DelayLead(heap, df) ==
    [heap EXCEPT ![df] = SetItem(@, "Lead_Time_Days",
        SeriesAdd(GetItem(@, "Lead_Time_Days"),
                  Scalar(GetItem(@, "Lead_Time_Days"), Int2Num(3))))]

\* The last branch perturbing too.
Perturb_default_scaled(heap, df, tag) ==
    IF tag = "High Demand (+20%)" THEN ScaleDemand(heap, df)
    ELSE IF tag = "Supply Delay (+3 days)" THEN DelayLead(heap, df)
    ELSE IF tag = "High Demand + Supply Delay" THEN DelayLead(ScaleDemand(heap, df), df)
    ELSE ScaleDemand(heap, df)

\* The combined scenario applying the first perturbation only.
Perturb_first_only(heap, df, tag) ==
    IF tag = "High Demand (+20%)" THEN ScaleDemand(heap, df)
    ELSE IF tag = "Supply Delay (+3 days)" THEN DelayLead(heap, df)
    ELSE IF tag = "High Demand + Supply Delay" THEN ScaleDemand(heap, df)
    ELSE heap

\* Tags matched leniently: a trailing blank or another case is accepted.
Perturb_lenient(heap, df, tag) ==
    IF tag \in {"High Demand (+20%)", "High Demand (+20%) ", "high demand (+20%)"}
    THEN ScaleDemand(heap, df)
    ELSE IF tag = "Supply Delay (+3 days)" THEN DelayLead(heap, df)
    ELSE IF tag = "High Demand + Supply Delay" THEN DelayLead(ScaleDemand(heap, df), df)
    ELSE heap

\* The branches of apply_scenario, on the object named df.
Perturb(heap, df, tag) ==
    IF tag = "High Demand (+20%)" THEN ScaleDemand(heap, df)
    ELSE IF tag = "Supply Delay (+3 days)" THEN DelayLead(heap, df)
    ELSE IF tag = "High Demand + Supply Delay" THEN DelayLead(ScaleDemand(heap, df), df)
    ELSE heap

\* apply_scenario without the copy.
apply_scenario_in_place(heap, df, tag) ==
    calculate_metrics(Perturb(heap, df, tag), df)

\* apply_scenario(df, scenario): df = df.copy() rebinds the name df to a
\* new object, which the branches and calculate_metrics then work on.
apply_scenario(heap, df, tag) ==
    calculate_metrics(Perturb(Copy(heap, df, "copy"), "copy", tag), "copy")

\* f'{sku_class} {sku_number}': the class, a blank, the number.
generate_sku_label(sku_class, sku_number) == <<sku_class>> \o sku_number

---------------------------------------------------------------------------
(* Inputs: the choices the widgets offer and the values drawn for them *)

MaxRows == 2

\* st.selectbox("Select Scenario", ...)
ScenarioTags == {"Base Case", "High Demand (+20%)", "Supply Delay (+3 days)",
                 "High Demand + Supply Delay"}

\* Tags no selectbox offers, for direct calls of apply_scenario.
OtherTags == {"High Demand (+20%) ", "high demand (+20%)", "Supply Delay"}

\* st.selectbox("Product Class", ...)
Classes == <<"A", "B", "C", "D">>

ClassChoices == {"A", "B"}

NumberChoices == {<<"101">>}

\* The row the Add form holds: number_input's minimum is also its default.
AddDemand == {Int2Num(1)}
AddLead == {Int2Num(1)}
AddSafety == {Int2Num(1)}
AddOrderCost == {Int2Num(1)}
AddHoldingCost == {Q(1, 10)}

\* Uploaded files: rows of base fields, under the base columns, under the
\* base and the derived columns (with values that are not the formulas'),
\* or with a base column missing.
UploadRows ==
    << [SKU |-> <<"A", "101">>, Class |-> "A", Average_Daily_Demand |-> Int2Num(50),
        Lead_Time_Days |-> Int2Num(10), Safety_Stock |-> Int2Num(100),
        Order_Cost |-> Int2Num(200), Holding_Cost |-> Int2Num(2)],
       [SKU |-> <<"B", "7">>, Class |-> "B", Average_Daily_Demand |-> Int2Num(0),
        Lead_Time_Days |-> Int2Num(2), Safety_Stock |-> Int2Num(10),
        Order_Cost |-> Int2Num(50), Holding_Cost |-> Int2Num(4)] >>

StaleDerived ==
    [ROP |-> Int2Num(1), Annual_Demand |-> Int2Num(2), EOQ |-> Int2Num(3),
     Total_Cost |-> Int2Num(4)]

Restrict(f, S) == [x \in S |-> f[x]]

SeqsUpTo(S, n) == UNION {[1..m -> S] : m \in 0..n}

UploadColumns ==
    { BaseCols, BaseCols \o DerivedCols, SubSeq(BaseCols, 1, Len(BaseCols) - 1) }

\* The sheets of at most MaxRows rows taken from UploadRows in their order.
UploadSheets ==
    { SelectSeq(UploadRows, LAMBDA r : r \in S) :
        S \in {T \in SUBSET Range(UploadRows) : Cardinality(T) <= MaxRows} }

\* pd.read_csv / pd.read_excel: the file's columns and rows, under the
\* default index.
ReadFile(cols, rows) ==
    DataFrame(cols, RangeIndex(Len(rows)),
              [i \in DOMAIN rows |-> Restrict(rows[i] @@ StaleDerived, Range(cols))])

UploadFiles == { ReadFile(cols, rows) : cols \in UploadColumns, rows \in UploadSheets }

---------------------------------------------------------------------------
(* The session *)

InitialData ==
    DataFrame(BaseCols, RangeIndex(2),
        << [SKU |-> <<"A", "101">>, Class |-> "A", Average_Daily_Demand |-> Int2Num(50),
            Lead_Time_Days |-> Int2Num(10), Safety_Stock |-> Int2Num(100),
            Order_Cost |-> Int2Num(200), Holding_Cost |-> Int2Num(2)],
           [SKU |-> <<"B", "101">>, Class |-> "B", Average_Daily_Demand |-> Int2Num(30),
            Lead_Time_Days |-> Int2Num(5), Safety_Stock |-> Int2Num(50),
            Order_Cost |-> Int2Num(150), Holding_Cost |-> Q(15, 10)] >>)

NoRun ==
    /\ option = "none"
    /\ scenario = "none"
    /\ out = None
    /\ chart = <<>>
    /\ class_summary = <<>>
    /\ excel_data = None
    /\ err = "none"
    /\ msg = "none"
    /\ cm_before = None
    /\ cm_after = None
    /\ views = 0

Init ==
    /\ data = InitialData
    /\ pre = InitialData
    /\ NoRun

\* The position of the row labelled l.
Loc(df, l) == CHOOSE p \in DOMAIN df.index : df.index[p] = l

\* The chart loop: for i, sku in enumerate(df["SKU"]) it looks ROP and EOQ up
\* by the label i, which raises KeyError when no row is labelled i.  Drawn(df)
\* is the number of labels drawn before the loop ends or raises.
Drawn(df) ==
    LET n == Len(df.rows)
        missing == {i \in 0..(n - 1) : i \notin Range(df.index)}
    IN  IF missing = {} THEN n
        ELSE CHOOSE i \in missing : \A j \in missing : i <= j

ChartOf(df) ==
    [i \in 1..Drawn(df) |->
        [x |-> Add(df.rows[Loc(df, i - 1)]["ROP"], Int2Num(5)),
         y |-> df.rows[Loc(df, i - 1)]["EOQ"],
         text |-> df.rows[i]["SKU"]]]

\* Series.sum() of the column c over the rows of class cls: NaN cells are
\* skipped (skipna), the others are added in row order.
RECURSIVE GroupSum(_, _, _, _)
GroupSum(df, cls, c, n) ==
    IF n = 0 THEN Int2Num(0)
    ELSE LET v == df.rows[n][c]
             rest == GroupSum(df, cls, c, n - 1)
         IN  IF df.rows[n]["Class"] = cls /\ ~IsNaN(v) THEN Add(rest, v) ELSE rest

\* df.groupby("Class")[["ROP","EOQ","Total_Cost"]].sum().reset_index(): one
\* row per class present, in the sorted order of the classes.
ClassSummary(df) ==
    LET present == SelectSeq(Classes, LAMBDA c : \E i \in DOMAIN df.rows : df.rows[i]["Class"] = c)
    IN  [j \in DOMAIN present |->
            [Class |-> present[j],
             ROP |-> GroupSum(df, present[j], "ROP", Len(df.rows)),
             EOQ |-> GroupSum(df, present[j], "EOQ", Len(df.rows)),
             Total_Cost |-> GroupSum(df, present[j], "Total_Cost", Len(df.rows))]]

\* View SKUs keeping the scenario table as the session store.
Render_persist(r, df_scenario, tag) ==
    /\ data' = df_scenario
    /\ pre' = data
    /\ option' = "View SKUs"
    /\ scenario' = tag
    /\ out' = df_scenario
    /\ chart' = ChartOf(df_scenario)
    /\ class_summary' = IF Drawn(df_scenario) < Len(df_scenario.rows) THEN <<>>
                        ELSE ClassSummary(df_scenario)
    /\ excel_data' = None
    /\ err' = IF Drawn(df_scenario) < Len(df_scenario.rows) THEN "KeyError" ELSE "none"
    /\ msg' = "none"
    /\ cm_before' = r.entry
    /\ cm_after' = r.heap[r.ret]
    /\ views' = IF views < 2 THEN views + 1 ELSE views

\* What View SKUs shows of r, the objects apply_scenario has returned:
\* the table, then the chart, then the summary unless the chart loop raised.
Render(r, df_scenario, tag) ==
    /\ data' = r.heap["store"]
    /\ pre' = data
    /\ option' = "View SKUs"
    /\ scenario' = tag
    /\ out' = df_scenario
    /\ chart' = ChartOf(df_scenario)
    /\ class_summary' = IF Drawn(df_scenario) < Len(df_scenario.rows) THEN <<>>
                        ELSE ClassSummary(df_scenario)
    /\ excel_data' = None
    /\ err' = IF Drawn(df_scenario) < Len(df_scenario.rows) THEN "KeyError" ELSE "none"
    /\ msg' = "none"
    /\ cm_before' = r.entry
    /\ cm_after' = r.heap[r.ret]
    /\ views' = IF views < 2 THEN views + 1 ELSE views

Returned(r) == r.heap[r.ret]

\* option == "View SKUs"
ViewSKUs(tag) ==
    \E r \in {apply_scenario([store |-> data], "store", tag)} :
        Render(r, Returned(r), tag)

\* What Download Data leaves of r, the objects calculate_metrics has returned.
Export(r, df) ==
    /\ data' = r.heap["store"]
    /\ pre' = data
    /\ option' = "Download Data"
    /\ scenario' = "none"
    /\ out' = df
    /\ chart' = <<>>
    /\ class_summary' = <<>>
    /\ excel_data' = download_excel(df)
    /\ err' = "none"
    /\ msg' = "none"
    /\ cm_before' = r.entry
    /\ cm_after' = r.heap[r.ret]
    /\ views' = 0

\* option == "Download Data"
DownloadData ==
    \E r \in {calculate_metrics(Copy([store |-> data], "store", "copy"), "copy")} :
        Export(r, Returned(r))

\* What a run that calls neither function leaves behind.
Plain(op, e, m) ==
    /\ pre' = data
    /\ option' = op
    /\ scenario' = "none"
    /\ out' = None
    /\ chart' = <<>>
    /\ class_summary' = <<>>
    /\ excel_data' = None
    /\ err' = e
    /\ msg' = m
    /\ cm_before' = None
    /\ cm_after' = None
    /\ views' = 0

\* option == "Add SKU", the button pressed.  The new row takes the store's
\* columns; pandas raises ValueError when they are not as many as the values.
AddSKU(sku_class, sku_number, demand, lead, safety, order_cost, holding_cost) ==
    LET sku_label == generate_sku_label(sku_class, sku_number)
        values == <<sku_label, sku_class, demand, lead, safety, order_cost, holding_cost>>
    IN  /\ Len(data.rows) < MaxRows
        /\ IF Len(data.cols) # Len(values)
           THEN /\ data' = data
                /\ Plain("Add SKU", "ValueError", "none")
           ELSE /\ data' = DataFrame(data.cols, RangeIndex(Len(data.rows) + 1),
                                     Append(data.rows, RowOf(data.cols, values)))
                /\ Plain("Add SKU", "none", "success")

\* idx taken from the last row whose SKU is the selected one.
Idx_last(selected) ==
    CHOOSE p \in DOMAIN data.rows :
        /\ data.rows[p]["SKU"] = selected
        /\ \A q \in DOMAIN data.rows : data.rows[q]["SKU"] = selected => q <= p

\* option == "Update SKU".  idx is the label of the first row whose SKU is
\* the selected one; Idx is that row's position.
Idx(selected) ==
    CHOOSE p \in DOMAIN data.rows :
        /\ data.rows[p]["SKU"] = selected
        /\ \A q \in DOMAIN data.rows : data.rows[q]["SKU"] = selected => p <= q

\* The script fills the form before the button is read: splitting the label
\* raises IndexError when it has no blank, and list.index raises ValueError
\* when the class is not one of the four.
FormError(selected) ==
    LET row == data.rows[Idx(selected)]
    IN  IF Len(row["SKU"]) < 2 THEN "IndexError"
        ELSE IF row["Class"] \notin Range(Classes) THEN "ValueError"
        ELSE "none"

\* current_number: .split(" ")[1]
CurrentNumber(selected) == <<data.rows[Idx(selected)]["SKU"][2]>>

\* The button writes the row back in place; pandas raises ValueError when
\* the row has not as many columns as the list has values.
UpdateSKU(selected, sku_class, sku_number, demand, lead, safety, order_cost, holding_cost) ==
    /\ \E p \in DOMAIN data.rows : data.rows[p]["SKU"] = selected
    /\ selected # <<>>
    /\ IF FormError(selected) # "none"
       THEN data' = data /\ Plain("Update SKU", FormError(selected), "none")
       ELSE LET sku_label == generate_sku_label(sku_class, sku_number)
                values == <<sku_label, sku_class, demand, lead, safety, order_cost,
                            holding_cost>>
            IN  IF Len(data.cols) # Len(values)
                THEN data' = data /\ Plain("Update SKU", "ValueError", "none")
                ELSE /\ data' = [data EXCEPT !.rows[Idx(selected)] = RowOf(data.cols, values)]
                     /\ Plain("Update SKU", "none", "success")

\* option == "Delete SKU", the button pressed: the rows whose label is not the
\* selected one, under the labels they had.
Keep(df, selected) == {p \in DOMAIN df.rows : df.rows[p]["SKU"] # selected}

RECURSIVE Filter(_, _, _)
Filter(s, keep, n) ==
    IF n = 0 THEN <<>>
    ELSE IF n \in keep THEN Append(Filter(s, keep, n - 1), s[n])
    ELSE Filter(s, keep, n - 1)

DeleteSKU(selected) ==
    /\ \/ \E p \in DOMAIN data.rows : data.rows[p]["SKU"] = selected
       \/ data.rows = <<>> /\ selected = <<>>
    /\ data' = DataFrame(data.cols,
                         Filter(data.index, Keep(data, selected), Len(data.rows)),
                         Filter(data.rows, Keep(data, selected), Len(data.rows)))
    /\ Plain("Delete SKU", "none", "success")

\* Upload Data accepting a file that holds any one of the required columns.
UploadData_any(uploaded_df) ==
    LET required_cols == data.cols
    IN  IF \E j \in DOMAIN required_cols : required_cols[j] \in Range(uploaded_df.cols)
        THEN data' = uploaded_df /\ Plain("Upload Data", "none", "success")
        ELSE data' = data /\ Plain("Upload Data", "none", "error")

\* option == "Upload Data", a file chosen.
UploadData(uploaded_df) ==
    LET required_cols == data.cols
    IN  IF \A j \in DOMAIN required_cols : required_cols[j] \in Range(uploaded_df.cols)
        THEN data' = uploaded_df /\ Plain("Upload Data", "none", "success")
        ELSE data' = data /\ Plain("Upload Data", "none", "error")

\* sku_list, and the selectbox's None when it is empty
SkuList == Range(GetItem(data, "SKU")) \cup {<<>>}

\* The values the Update form shows when it opens: value=float(...) of the
\* row's cell, and the label's number.
Current(selected, c) == data.rows[Idx(selected)][c]

UpdateNumber(selected) ==
    IF FormError(selected) = "none" THEN {CurrentNumber(selected)} ELSE NumberChoices

Next ==
    \/ \E tag \in ScenarioTags : ViewSKUs(tag)
    \/ \E c \in ClassChoices, n \in NumberChoices, d \in AddDemand, l \in AddLead,
         s \in AddSafety, oc \in AddOrderCost, hc \in AddHoldingCost :
            AddSKU(c, n, d, l, s, oc, hc)
    \/ \E sel \in SkuList \ {<<>>} :
         \E c \in ClassChoices, n \in UpdateNumber(sel),
            d \in {Current(sel, "Average_Daily_Demand")},
            l \in {Current(sel, "Lead_Time_Days")},
            s \in {Current(sel, "Safety_Stock")},
            oc \in {Current(sel, "Order_Cost")},
            hc \in {Current(sel, "Holding_Cost"), Int2Num(0)} :
                UpdateSKU(sel, c, n, d, l, s, oc, hc)
    \/ \E sel \in SkuList : DeleteSKU(sel)
    \/ \E f \in UploadFiles : UploadData(f)
    \/ DownloadData

Spec == Init /\ [][Next]_vars

---------------------------------------------------------------------------
(* The two functions called directly, on any table of the bounded family   *)
(* CoreTables and with any tag: data is the collection the caller passes.  *)

CoreRows ==
    Range(InitialData.rows) \cup Range(UploadRows) \cup
    { [SKU |-> <<"C", "5">>, Class |-> "C", Average_Daily_Demand |-> Int2Num(20),
       Lead_Time_Days |-> Int2Num(4), Safety_Stock |-> Int2Num(0),
       Order_Cost |-> Int2Num(100), Holding_Cost |-> Int2Num(0)] }

CoreTables ==
    { ReadFile(cols, rows) : cols \in {BaseCols, BaseCols \o DerivedCols},
                             rows \in SeqsUpTo(CoreRows, MaxRows) }

CoreInit ==
    /\ data \in CoreTables
    /\ pre = data
    /\ NoRun

\* What a direct call leaves of r, the objects the function has returned.
Call(r, op, tag) ==
    /\ data' = r.heap["store"]
    /\ pre' = data
    /\ option' = op
    /\ scenario' = tag
    /\ out' = Returned(r)
    /\ chart' = <<>>
    /\ class_summary' = <<>>
    /\ excel_data' = None
    /\ err' = "none"
    /\ msg' = "none"
    /\ cm_before' = r.entry
    /\ cm_after' = r.heap[r.ret]
    /\ views' = 0

\* df_scenario = apply_scenario(data, tag)
CallApplyScenario(tag) ==
    Call(apply_scenario([store |-> data], "store", tag), "apply_scenario", tag)

\* df = calculate_metrics(data)
CallCalculateMetrics ==
    Call(calculate_metrics([store |-> data], "store"), "calculate_metrics", "none")

CoreNext ==
    \/ \E tag \in ScenarioTags \cup OtherTags : CallApplyScenario(tag)
    \/ CallCalculateMetrics
    \/ \E tag \in ScenarioTags : ViewSKUs(tag)
    \/ DownloadData

CoreSpec == CoreInit /\ [][CoreNext]_vars
---------------------------------------------------------------------------
(* The formulas of the data model, on one record *)

FormulaROP(row) ==
    Add(Mul(row["Average_Daily_Demand"], row["Lead_Time_Days"]), row["Safety_Stock"])

FormulaAnnualDemand(row) == Mul(row["Average_Daily_Demand"], Int2Num(365))

FormulaEOQ(row) ==
    Sqrt(Div(Mul(Mul(Int2Num(2), FormulaAnnualDemand(row)), row["Order_Cost"]),
             row["Holding_Cost"]))

FormulaTotalCost(row) ==
    Add(Mul(Div(FormulaEOQ(row), Int2Num(2)), row["Holding_Cost"]),
        Mul(Div(FormulaAnnualDemand(row), FormulaEOQ(row)), row["Order_Cost"]))

\* The record a scenario makes of a record.
PerturbedRow(row, tag) ==
    [row EXCEPT
        !["Average_Daily_Demand"] =
            IF tag \in {"High Demand (+20%)", "High Demand + Supply Delay"}
            THEN Mul(@, Q(6, 5)) ELSE @,
        !["Lead_Time_Days"] =
            IF tag \in {"Supply Delay (+3 days)", "High Demand + Supply Delay"}
            THEN Add(@, Int2Num(3)) ELSE @]

\* The derived values of row are the formulas applied to the record base.
DerivedFrom(row, base) ==
    /\ row["ROP"] = FormulaROP(base)
    /\ row["Annual_Demand"] = FormulaAnnualDemand(base)
    /\ row["EOQ"] = FormulaEOQ(base)
    /\ row["Total_Cost"] = FormulaTotalCost(base)

\* Every row of the table t carries the derived values of the row of src at
\* its position, perturbed by tag.
TableDerivedFrom(t, src, tag) ==
    /\ Len(t.rows) = Len(src.rows)
    /\ \A i \in DOMAIN t.rows : DerivedFrom(t.rows[i], PerturbedRow(src.rows[i], tag))

BaseOf(row) == Restrict(row, Range(BaseCols))

DerivedOf(row) == Restrict(row, Range(DerivedCols))

Positive(x) == IsFinite(x) /\ SignOf(x) > 0

NonNegative(x) == IsFinite(x) /\ SignOf(x) >= 0

HasDerived(t) == \E j \in DOMAIN t.cols : t.cols[j] \in Range(DerivedCols)

---------------------------------------------------------------------------
(* Claims *)

\* C1: apply_scenario never mutates the collection it is given. After a call
\* of apply_scenario(store, tag) with any tag, known or not, and after every
\* View SKUs run of any sequence of them, the store has the rows, columns and
\* values it had when the run began, and so has gained no derived column.
C1_StoreUntouched ==
    option \in {"apply_scenario", "View SKUs"} => data = pre

C1_Witness ==
    /\ option = "apply_scenario"
    /\ scenario \in OtherTags
    /\ Len(data.rows) = MaxRows
    /\ ~HasDerived(data)
    /\ HasDerived(out)

\* C2: scenario results do not depend on scenario history. The table a View
\* SKUs run with tag s2 shows right after a View SKUs run with a tag s1 is the
\* table apply_scenario makes with s2 of the store as it was before the first
\* of the two runs; under High Demand its demand is 1.2 times that store's
\* demand and under Supply Delay its lead time is that store's plus 3.
C2_Fresh(t, src, tag) ==
    /\ t = Returned(apply_scenario([store |-> src], "store", tag))
    /\ Len(t.rows) = Len(src.rows)
    /\ \A i \in DOMAIN t.rows :
        /\ tag = "High Demand (+20%)" =>
              t.rows[i]["Average_Daily_Demand"] =
                  Mul(src.rows[i]["Average_Daily_Demand"], Q(6, 5))
        /\ tag = "Supply Delay (+3 days)" =>
              t.rows[i]["Lead_Time_Days"] = Add(src.rows[i]["Lead_Time_Days"], Int2Num(3))

C2_HistoryIndependent ==
    [][(option = "View SKUs" /\ option' = "View SKUs") => C2_Fresh(out', pre, scenario')]_vars

C2_Witness ==
    /\ views = 2
    /\ scenario = "High Demand (+20%)"
    /\ Len(out.rows) > 0
    /\ out.rows[1]["Average_Daily_Demand"] = Mul(data.rows[1]["Average_Daily_Demand"], Q(6, 5))
    /\ out.rows[1]["Average_Daily_Demand"] # data.rows[1]["Average_Daily_Demand"]

\* C3: derived fields are never stale. After any Add, Update, Delete and
\* Upload runs, an upload of a table that carries derived columns included,
\* every derived value View SKUs shows is the formula applied to the store's
\* base fields of that moment perturbed by the scenario, and every derived
\* value Download Data exports is the formula applied to those base fields,
\* as the sheet writes it.
C3_NeverStale ==
    /\ option = "View SKUs" => TableDerivedFrom(out, pre, scenario)
    /\ option = "Download Data" =>
          /\ TableDerivedFrom(out, pre, "Base Case")
          /\ Len(excel_data.rows) = Len(pre.rows)
          /\ \A i \in DOMAIN excel_data.rows :
                /\ excel_data.rows[i]["ROP"] = ExcelCell(FormulaROP(pre.rows[i]))
                /\ excel_data.rows[i]["Annual_Demand"] =
                       ExcelCell(FormulaAnnualDemand(pre.rows[i]))
                /\ excel_data.rows[i]["EOQ"] = ExcelCell(FormulaEOQ(pre.rows[i]))
                /\ excel_data.rows[i]["Total_Cost"] = ExcelCell(FormulaTotalCost(pre.rows[i]))

C3_Witness ==
    /\ option = "Download Data"
    /\ HasDerived(pre)
    /\ Len(pre.rows) > 0
    /\ \A i \in DOMAIN pre.rows : DerivedOf(pre.rows[i]) = StaleDerived
    /\ \A i \in DOMAIN excel_data.rows : DerivedOf(excel_data.rows[i]) # StaleDerived

\* C4: calculate_metrics has no side effect on its input. When a call of
\* calculate_metrics(c) returns, the collection c the caller passed holds
\* the columns and values it held when the call began, and so has gained no
\* derived column.
C4_InputUntouched ==
    option = "calculate_metrics" =>
        /\ cm_after = cm_before
        /\ data = pre

\* C5 as first stated: for every valid record (demand, lead time and safety
\* stock >= 0, order cost > 0) with holding cost > 0, calculate_metrics
\* yields EOQ > 0, Annual_Demand = demand * 365 and ROP = demand * lead time
\* + safety stock.
ValidRecord(row) ==
    /\ NonNegative(row["Average_Daily_Demand"])
    /\ NonNegative(row["Lead_Time_Days"])
    /\ NonNegative(row["Safety_Stock"])
    /\ Positive(row["Order_Cost"])
    /\ Positive(row["Holding_Cost"])

C5_Original ==
    \A i \in DOMAIN cm_before.rows :
        ValidRecord(cm_before.rows[i]) =>
            /\ Positive(cm_after.rows[i]["EOQ"])
            /\ cm_after.rows[i]["Annual_Demand"] =
                   Mul(cm_before.rows[i]["Average_Daily_Demand"], Int2Num(365))
            /\ cm_after.rows[i]["ROP"] = FormulaROP(cm_before.rows[i])

\* C5: for every valid record with holding cost > 0, calculate_metrics yields
\* Annual_Demand = demand * 365, ROP = demand * lead time + safety stock, and
\* EOQ > 0 when the demand is > 0, EOQ = 0 when the demand is 0.
C5_Metrics ==
    \A i \in DOMAIN cm_before.rows :
        ValidRecord(cm_before.rows[i]) =>
            /\ IF Positive(cm_before.rows[i]["Average_Daily_Demand"])
               THEN Positive(cm_after.rows[i]["EOQ"])
               ELSE cm_after.rows[i]["EOQ"] = Int2Num(0)
            /\ cm_after.rows[i]["Annual_Demand"] =
                   Mul(cm_before.rows[i]["Average_Daily_Demand"], Int2Num(365))
            /\ cm_after.rows[i]["ROP"] = FormulaROP(cm_before.rows[i])

C5_Witness ==
    /\ option = "Download Data"
    /\ \E i, j \in DOMAIN cm_before.rows :
        /\ ValidRecord(cm_before.rows[i])
        /\ ValidRecord(cm_before.rows[j])
        /\ Positive(cm_before.rows[i]["Average_Daily_Demand"])
        /\ IsZero(cm_before.rows[j]["Average_Daily_Demand"])
        /\ Positive(cm_after.rows[i]["EOQ"])
        /\ IsZero(cm_after.rows[j]["EOQ"])

\* C6: apply_scenario(records, "Base Case") produces the result of
\* calculate_metrics(records): the same records in the same order, with
\* unperturbed base fields and the same four derived values.
C6_BaseCase ==
    (option \in {"apply_scenario", "View SKUs"} /\ scenario = "Base Case") =>
        /\ out = Returned(calculate_metrics([records |-> pre], "records"))
        /\ Len(out.rows) = Len(pre.rows)
        /\ \A i \in DOMAIN out.rows : BaseOf(out.rows[i]) = BaseOf(pre.rows[i])

C6_Witness ==
    /\ option = "apply_scenario"
    /\ scenario = "Base Case"
    /\ Len(pre.rows) = MaxRows
    /\ HasDerived(out)

\* C7: each scenario perturbs its own fields on every record before the
\* metrics are computed. High Demand makes the demand d of a record 1.2 * d
\* and keeps its lead time L, so ROP = 1.2 * d * L + safety stock and
\* Annual_Demand = 1.2 * d * 365; Supply Delay makes L of a record L + 3 and
\* keeps d, so ROP = d * (L + 3) + safety stock; under every scenario the
\* result has the store's Safety_Stock, Order_Cost, Holding_Cost, SKU, Class.
C7_Row(r, s, tag) ==
    /\ tag = "High Demand (+20%)" =>
          /\ r["Average_Daily_Demand"] = Mul(Q(6, 5), s["Average_Daily_Demand"])
          /\ r["Lead_Time_Days"] = s["Lead_Time_Days"]
          /\ r["ROP"] = Add(Mul(Mul(Q(6, 5), s["Average_Daily_Demand"]), s["Lead_Time_Days"]),
                            s["Safety_Stock"])
          /\ r["Annual_Demand"] = Mul(Mul(Q(6, 5), s["Average_Daily_Demand"]), Int2Num(365))
    /\ tag = "Supply Delay (+3 days)" =>
          /\ r["Lead_Time_Days"] = Add(s["Lead_Time_Days"], Int2Num(3))
          /\ r["Average_Daily_Demand"] = s["Average_Daily_Demand"]
          /\ r["ROP"] = Add(Mul(s["Average_Daily_Demand"], Add(s["Lead_Time_Days"], Int2Num(3))),
                            s["Safety_Stock"])
    /\ \A c \in {"Safety_Stock", "Order_Cost", "Holding_Cost", "SKU", "Class"} : r[c] = s[c]

C7_Perturbation ==
    option \in {"apply_scenario", "View SKUs"} =>
        /\ Len(out.rows) = Len(pre.rows)
        /\ \A i \in DOMAIN out.rows : C7_Row(out.rows[i], pre.rows[i], scenario)

C7_Witness ==
    /\ option = "View SKUs"
    /\ scenario = "Supply Delay (+3 days)"
    /\ Len(pre.rows) > 0
    /\ \A i \in DOMAIN out.rows : out.rows[i]["ROP"] # FormulaROP(pre.rows[i])

\* C8: the High Demand + Supply Delay scenario applies both perturbations, in
\* either order: its result is the metrics of the collection with the High
\* Demand and then the Supply Delay perturbation applied, and the metrics of
\* the collection with the two applied in the reverse order.
C8_BothOrders ==
    (option \in {"apply_scenario", "View SKUs"} /\ scenario = "High Demand + Supply Delay") =>
        /\ out = Returned(calculate_metrics(
                     DelayLead(ScaleDemand([records |-> pre], "records"), "records"),
                     "records"))
        /\ out = Returned(calculate_metrics(
                     ScaleDemand(DelayLead([records |-> pre], "records"), "records"),
                     "records"))

C8_Witness ==
    /\ option = "View SKUs"
    /\ scenario = "High Demand + Supply Delay"
    /\ Len(pre.rows) > 0
    /\ \A i \in DOMAIN out.rows :
        /\ out.rows[i]["Average_Daily_Demand"] # pre.rows[i]["Average_Daily_Demand"]
        /\ out.rows[i]["Lead_Time_Days"] # pre.rows[i]["Lead_Time_Days"]

\* C9: an unrecognized scenario tag is treated as Base Case. For a tag that
\* is none of the four, a near miss of one of them included, apply_scenario
\* raises no error and returns the Base Case result, no field perturbed.
C9_UnknownTag ==
    (option = "apply_scenario" /\ scenario \notin ScenarioTags) =>
        /\ err = "none"
        /\ out = Returned(apply_scenario([records |-> pre], "records", "Base Case"))
        /\ Len(out.rows) = Len(pre.rows)
        /\ \A i \in DOMAIN out.rows : BaseOf(out.rows[i]) = BaseOf(pre.rows[i])

C9_Witness ==
    /\ option = "apply_scenario"
    /\ scenario = "High Demand (+20%) "
    /\ Len(pre.rows) > 0
    /\ \E i \in DOMAIN pre.rows : Positive(pre.rows[i]["Average_Daily_Demand"])

\* C10: a numeric domain error is produced per record and does not abort the
\* batch. When a record has holding cost 0, calculate_metrics returns, that
\* record's EOQ and Total_Cost are not finite, its ROP and Annual_Demand are
\* their formulas, and the derived values of the other records are those
\* calculate_metrics gives them in the collection without that record.
ZeroHolding(t) == {i \in DOMAIN t.rows : IsZero(t.rows[i]["Holding_Cost"])}

Without(t, S) ==
    DataFrame(t.cols, Filter(t.index, DOMAIN t.rows \ S, Len(t.rows)),
              Filter(t.rows, DOMAIN t.rows \ S, Len(t.rows)))

DerivedRows(t) == [i \in DOMAIN t.rows |-> DerivedOf(t.rows[i])]

C10_PerRecord ==
    (cm_before # None /\ ZeroHolding(cm_before) # {}) =>
        /\ cm_after # None
        /\ Len(cm_after.rows) = Len(cm_before.rows)
        /\ \A i \in ZeroHolding(cm_before) :
            /\ ~IsFinite(cm_after.rows[i]["EOQ"])
            /\ ~IsFinite(cm_after.rows[i]["Total_Cost"])
            /\ cm_after.rows[i]["ROP"] = FormulaROP(cm_before.rows[i])
            /\ cm_after.rows[i]["Annual_Demand"] = FormulaAnnualDemand(cm_before.rows[i])
        /\ DerivedRows(Without(cm_after, ZeroHolding(cm_before))) =
           DerivedRows(Returned(calculate_metrics(
               [records |-> Without(cm_before, ZeroHolding(cm_before))], "records")))

C10_Witness ==
    /\ option = "Download Data"
    /\ ZeroHolding(cm_before) # {}
    /\ ZeroHolding(cm_before) # DOMAIN cm_before.rows
    /\ \E i \in ZeroHolding(cm_before) : IsInf(cm_after.rows[i]["EOQ"])

\* C11: calculate_metrics preserves the sequence and couples no records. Its
\* result has as many records as its argument, under the same row labels in
\* the same order, each with the SKU, Class and base fields it had, and the
\* four derived values of each record are those calculate_metrics gives that
\* record alone, in a collection holding only its base fields: they do not
\* depend on what other records the collection holds.
Single(row) == DataFrame(BaseCols, RangeIndex(1), <<BaseOf(row)>>)

C11_Sequence ==
    cm_before # None =>
        /\ Len(cm_after.rows) = Len(cm_before.rows)
        /\ cm_after.index = cm_before.index
        /\ \A i \in DOMAIN cm_before.rows :
            /\ BaseOf(cm_after.rows[i]) = BaseOf(cm_before.rows[i])
            /\ DerivedOf(cm_after.rows[i]) =
                   DerivedOf(Returned(calculate_metrics(
                       [records |-> Single(cm_before.rows[i])], "records")).rows[1])

C11_Witness ==
    /\ option = "calculate_metrics"
    /\ Len(cm_before.rows) = 2
    /\ cm_before.rows[1]["Safety_Stock"] # cm_before.rows[2]["Safety_Stock"]
    /\ cm_before.rows[1]["SKU"] # cm_before.rows[2]["SKU"]
    /\ cm_after.rows[1]["ROP"] # cm_after.rows[2]["ROP"]
    /\ cm_after.rows[1]["EOQ"] # cm_after.rows[2]["EOQ"]

\* C12: when View SKUs has computed the class-wise summary, it has exactly
\* one row per distinct Class of the scenario result, each row's ROP, EOQ and
\* Total_Cost are the sums of those fields over exactly the records of that
\* class, so that the row of a class of one record carries that record's
\* values, and the summary of an empty store is empty, with no error raised.
RECURSIVE SumOver(_, _, _, _)
SumOver(t, cls, c, n) ==
    IF n = 0 THEN Int2Num(0)
    ELSE IF t.rows[n]["Class"] = cls
         THEN Add(SumOver(t, cls, c, n - 1), t.rows[n][c])
         ELSE SumOver(t, cls, c, n - 1)

ClassesOf(t) == {t.rows[i]["Class"] : i \in DOMAIN t.rows}

OfClass(t, cls) == {i \in DOMAIN t.rows : t.rows[i]["Class"] = cls}

C12_ClassSums ==
    (option = "View SKUs" /\ err = "none") =>
        /\ Len(class_summary) = Cardinality(ClassesOf(out))
        /\ {class_summary[j]["Class"] : j \in DOMAIN class_summary} = ClassesOf(out)
        /\ \A j \in DOMAIN class_summary : \A c \in {"ROP", "EOQ", "Total_Cost"} :
            /\ class_summary[j][c] =
                   SumOver(out, class_summary[j]["Class"], c, Len(out.rows))
            /\ \A i \in OfClass(out, class_summary[j]["Class"]) :
                   OfClass(out, class_summary[j]["Class"]) = {i} =>
                       class_summary[j][c] = out.rows[i][c]
        /\ (pre.rows = <<>> => class_summary = <<>>)

\* C13: calculate_metrics is idempotent on its derived fields. Applied to a
\* collection that already carries ROP, Annual_Demand, EOQ and Total_Cost,
\* left by an earlier run or holding any other values, it gives each record
\* the derived values one run gives the collection of the base records alone,
\* and applied again to its own result it changes nothing.
BaseTable(t) ==
    DataFrame(BaseCols, t.index, [i \in DOMAIN t.rows |-> BaseOf(t.rows[i])])

C13_Idempotent ==
    cm_before # None =>
        /\ DerivedRows(cm_after) =
               DerivedRows(Returned(calculate_metrics(
                   [records |-> BaseTable(cm_before)], "records")))
        /\ Returned(calculate_metrics([records |-> cm_after], "records")) = cm_after

C13_Witness ==
    /\ option = "calculate_metrics"
    /\ HasDerived(cm_before)
    /\ Len(cm_before.rows) = MaxRows
    /\ \A i \in DOMAIN cm_before.rows : DerivedOf(cm_before.rows[i]) = StaleDerived
    /\ \A i \in DOMAIN cm_after.rows : DerivedOf(cm_after.rows[i]) # StaleDerived

\* C14: an import is rejected if any required column is absent. In every
\* reachable state the store's columns include the seven base columns, and
\* an Upload Data run with a table that lacks at least one of the seven
\* reports an error and leaves the store exactly as it was.
Lacking(t) == \E j \in DOMAIN BaseCols : BaseCols[j] \notin Range(t.cols)

C14_Rejected ==
    [][ /\ Range(BaseCols) \subseteq Range(data.cols)
        /\ Range(BaseCols) \subseteq Range(data'.cols)
        /\ \A f \in UploadFiles :
              (Lacking(f) /\ UploadData(f)) =>
                  /\ msg' = "error"
                  /\ err' = "none"
                  /\ data' = data ]_vars

C14_Witness ==
    /\ option = "Upload Data"
    /\ msg = "error"
    /\ data = pre
    /\ data.cols = BaseCols
    /\ Len(data.rows) = 1

\* C15: the SKU label is unique within the store at any point in time. In
\* every state reached from the initial store by Add SKU, Update SKU and
\* Delete SKU runs, no two records have the same SKU label.
C15_Unique ==
    \A i, j \in DOMAIN data.rows :
        data.rows[i]["SKU"] = data.rows[j]["SKU"] => i = j

\* C16: View SKUs can render in every reachable state. In every View SKUs
\* run after any Add SKU, Update SKU and Delete SKU runs, the store's row
\* labels are exactly 0 .. n-1 in order, the chart loop raises no error and
\* draws one label per record, and the label of the i-th SKU stands at the
\* ROP (+5) and EOQ of that SKU's own row.
C16_Renders ==
    option = "View SKUs" =>
        /\ pre.index = RangeIndex(Len(pre.rows))
        /\ err = "none"
        /\ Len(chart) = Len(out.rows)
        /\ \A i \in DOMAIN chart :
            /\ chart[i].text = out.rows[i]["SKU"]
            /\ chart[i].x = Add(out.rows[i]["ROP"], Int2Num(5))
            /\ chart[i].y = out.rows[i]["EOQ"]

\* C17: upload acceptance does not depend on earlier uploads. In every
\* reachable state, an Upload Data run with a table whose columns are exactly
\* the seven base columns is accepted and the table becomes the store, also
\* after an accepted upload of a table that carries the derived columns.
C17_Accepted ==
    [][ \A f \in UploadFiles :
          (f.cols = BaseCols /\ UploadData(f)) =>
              /\ msg' = "success"
              /\ data' = f ]_vars

\* C18: Delete SKU removes every record whose SKU label is the selected one
\* and nothing else: the records left are those with another label, with the
\* field values and in the order they had. Update SKU changes only the first
\* record whose label is the selected one: every other record, a later one
\* with the same label included, and the number and order of the records stay
\* as they were.
Labelled(t, sel) == {p \in DOMAIN t.rows : t.rows[p]["SKU"] = sel}

First(S) == CHOOSE p \in S : \A q \in S : p <= q

====
